---- MODULE Spec2Model ----
(***************************************************************************)
(* A model of schemagic: the recursive schema validator of                 *)
(* schemagic/core.py, the predicate dispatch and merge of                  *)
(* schemagic/utils.py and the predicate validators of                      *)
(* schemagic/validators.py.                                                *)
(*                                                                         *)
(* Python data is a tagged record [t, v]:                                  *)
(*   none    v = "None"                                                    *)
(*   int     v = the integer                                               *)
(*   str     v = the sequence of its characters                            *)
(*   seq     v = the sequence of its elements (a list)                     *)
(*   map     v = the sequence of its <<key, value>> items, in the dict's   *)
(*               iteration order, keys pairwise distinct                   *)
(*   set     v = the set of its elements                                   *)
(*   fn      v = the name of a builtin type used as a callable (int, str)  *)
(*   pv      v = the arguments bound in a predicate_validator partial      *)
(*   validator  v = the arguments bound in a core.validator partial        *)
(*   tup     v = the sequence of the elements of a tuple                   *)
(*   def     v = a function of the caller: what it does when it is called  *)
(* A text (an error message) is a sequence of characters in which a        *)
(* longer element stands for fixed text that holds no part of "input".     *)
(* An outcome of a call is [ok, val, exc, form, calls]: calls is the trace *)
(* of the validate_against_schema invocations the call made, in order.     *)
(***************************************************************************)
EXTENDS Integers, Sequences, FiniteSets, TLC

VARIABLES pc, op, schema, value, result, coerce_data, preds, guard, run, web

vars == <<pc, op, schema, value, result, coerce_data, preds, guard, run, web>>

----------------------------------------------------------------------------
(* Python values *)

NoneV == [t |-> "none", v |-> "None"]

IntV(n) == [t |-> "int", v |-> n]

StrV(cs) == [t |-> "str", v |-> cs]

SeqV(xs) == [t |-> "seq", v |-> xs]
TupV(xs) == [t |-> "tup", v |-> xs]

MapV(items) == [t |-> "map", v |-> items]

SetV(s) == [t |-> "set", v |-> s]

FnV(name) == [t |-> "fn", v |-> name]

NoVal == [t |-> "novalue", v |-> "-"]

NoExc == [type |-> "", kind |-> "", args |-> <<>>]

Exc(type, kind, args) == [type |-> type, kind |-> kind, args |-> args]

Returns(val, calls) ==
    [ok |-> TRUE, val |-> val, exc |-> NoExc, form |-> "", calls |-> calls]

Raises(exc, calls) ==
    [ok |-> FALSE, val |-> NoVal, exc |-> exc, form |-> "", calls |-> calls]

Call(path, s, x) == [path |-> path, schema |-> s, value |-> x]

----------------------------------------------------------------------------
(* dict primitives over the item sequence *)

Range(seq) == {seq[i] : i \in 1..Len(seq)}

DictKeys(d) == {d.v[i][1] : i \in 1..Len(d.v)}

DictHas(d, k) == k \in DictKeys(d)

DictGet(d, k) == d.v[CHOOSE i \in 1..Len(d.v) : d.v[i][1] = k][2]

\* d[k] = x : an existing key keeps its position, a new key is appended
DictSet(d, k, x) ==
    IF DictHas(d, k)
    THEN MapV([i \in 1..Len(d.v) |-> IF d.v[i][1] = k THEN <<k, x>> ELSE d.v[i]])
    ELSE MapV(Append(d.v, <<k, x>>))

\* dict equality ignores the iteration order
DictEq(a, b) == Range(a.v) = Range(b.v)

RECURSIVE IsHashable(_)
IsHashable(x) ==
    IF x.t = "tup" THEN \A i \in 1..Len(x.v) : IsHashable(x.v[i])
    ELSE x.t \notin {"seq", "map", "set"}

\* == of Python, as used by the `in` operator
PyEq(a, b) ==
    IF a.t = "map" /\ b.t = "map" THEN DictEq(a, b) ELSE a = b

\* bool(x)
Truthy(x) ==
    CASE x.t = "none" -> FALSE
      [] x.t = "int" -> x.v # 0
      [] x.t \in {"str", "seq", "tup", "map"} -> Len(x.v) > 0
      [] x.t = "set" -> x.v # {}
      [] OTHER -> TRUE

HasLen(x) == x.t \in {"str", "seq", "tup", "map"}

\* iter(x): the elements of a list, the characters of a str, the keys of a dict
Elements(x) ==
    CASE x.t \in {"seq", "tup"} -> x.v
      [] x.t = "str" -> [i \in 1..Len(x.v) |-> StrV(<<x.v[i]>>)]
      [] x.t = "map" -> [i \in 1..Len(x.v) |-> x.v[i][1]]

----------------------------------------------------------------------------
(* builtin conversions: int(x), str(x), repr(x) *)

DigitChars == <<"0", "1", "2", "3", "4", "5", "6", "7", "8", "9">>

IsDigit(c) == c \in Range(DigitChars)

DigitVal(c) == (CHOOSE i \in 1..10 : DigitChars[i] = c) - 1

RECURSIVE ParseDigits(_, _)
ParseDigits(cs, acc) ==
    IF cs = <<>> THEN acc
    ELSE ParseDigits(Tail(cs), 10 * acc + DigitVal(Head(cs)))

AllDigits(cs) == cs # <<>> /\ \A i \in 1..Len(cs) : IsDigit(cs[i])

RECURSIVE NatToChars(_)
NatToChars(n) ==
    IF n < 10 THEN <<DigitChars[n + 1]>>
    ELSE NatToChars(n \div 10) \o <<DigitChars[(n % 10) + 1]>>

IntToChars(n) == IF n < 0 THEN <<"-">> \o NatToChars(0 - n) ELSE NatToChars(n)

\* int(x): an int is returned as it is, a str is parsed as a decimal
\* literal with an optional sign (ValueError when it is not one), anything
\* else in the value model is a TypeError
PyInt(x) ==
    CASE x.t = "int" -> Returns(x, <<>>)
      [] x.t = "str" ->
            IF AllDigits(x.v) THEN Returns(IntV(ParseDigits(x.v, 0)), <<>>)
            ELSE IF Len(x.v) > 1 /\ Head(x.v) \in {"-", "+"} /\ AllDigits(Tail(x.v))
            THEN Returns(IntV(IF Head(x.v) = "-"
                              THEN 0 - ParseDigits(Tail(x.v), 0)
                              ELSE ParseDigits(Tail(x.v), 0)), <<>>)
            ELSE Raises(Exc("ValueError", "invalid literal for int()", <<x>>), <<>>)
      [] OTHER -> Raises(Exc("TypeError", "int() argument", <<x>>), <<>>)

RECURSIVE JoinChars(_, _)
\* sep.join(parts)
JoinChars(parts, sep) ==
    IF parts = <<>> THEN <<>>
    ELSE IF Len(parts) = 1 THEN parts[1]
    ELSE parts[1] \o sep \o JoinChars(Tail(parts), sep)

RECURSIVE SetToSeq(_)
\* the elements of a set in one of its iteration orders
SetToSeq(S) ==
    IF S = {} THEN <<>>
    ELSE LET x == CHOOSE y \in S : TRUE IN <<x>> \o SetToSeq(S \ {x})

RECURSIVE ReprChars(_)
\* the characters of repr(x); the memory address inside the repr of a
\* partial is left out
ReprChars(x) ==
    CASE x.t = "none" -> <<"N", "o", "n", "e">>
      [] x.t = "int" -> IntToChars(x.v)
      [] x.t = "str" -> <<"'">> \o x.v \o <<"'">>
      [] x.t = "seq" ->
            <<"[">> \o JoinChars([i \in 1..Len(x.v) |-> ReprChars(x.v[i])], <<",", " ">>) \o <<"]">>
      [] x.t = "map" ->
            <<"{">> \o JoinChars([i \in 1..Len(x.v) |->
                         ReprChars(x.v[i][1]) \o <<":", " ">> \o ReprChars(x.v[i][2])],
                                 <<",", " ">>) \o <<"}">>
      [] x.t = "tup" ->
            <<"(">> \o JoinChars([i \in 1..Len(x.v) |-> ReprChars(x.v[i])], <<",", " ">>)
                \o (IF Len(x.v) = 1 THEN <<",", ")">> ELSE <<")">>)
      [] x.t = "set" ->
            <<"{">> \o JoinChars([i \in 1..Cardinality(x.v) |-> ReprChars(SetToSeq(x.v)[i])],
                                 <<",", " ">>) \o <<"}">>
      [] x.t = "fn" -> <<"<", "c", "l", "a", "s", "s", " ", "'">> \o <<x.v>> \o <<"'", ">">>
      [] OTHER -> <<"f", "u", "n", "c", "t", "o", "o", "l", "s", ".",
                    "p", "a", "r", "t", "i", "a", "l", "(", ")">>

\* str(x): a str is returned as it is, everything else gives its repr
PyStr(x) == IF x.t = "str" THEN x ELSE StrV(ReprChars(x))

----------------------------------------------------------------------------
(* schemagic/utils.py and the classification predicates of core.py *)

is_string(obj) == obj.t = "str"

\* isinstance(x, collections.Sequence): lists and strings
IsSequence(x) == x.t \in {"seq", "tup", "str"}

\* isinstance(x, collections.MutableMapping)
IsMutableMapping(x) == x.t = "map"

_is_map_template(s) ==
    IsMutableMapping(s) /\ Len(s.v) = 1 /\ ~is_string(s.v[1][1])

_is_keyed_mapping(s) == IsMutableMapping(s) /\ ~_is_map_template(s)

_is_sequence_template(s) == IsSequence(s) /\ Len(s.v) = 1

\* _is_strict_sequence that takes every length but one
_is_strict_sequence_NotOne(s) == IsSequence(s) /\ Len(s.v) # 1

_is_strict_sequence(s) == IsSequence(s) /\ 1 < Len(s.v)

\* the dispatch map of _validate_against_schema, in the order of the dict
DispatchMap ==
    << <<"_is_sequence_template", "validate_sequence_template">>,
       <<"_is_strict_sequence", "validate_strict_sequence">>,
       <<"_is_map_template", "validate_map_template">>,
       <<"_is_keyed_mapping", "validate_keyed_mapping">> >>

DispatchPredicate(name, s) ==
    CASE name = "_is_sequence_template" -> _is_sequence_template(s)
      [] name = "_is_strict_sequence" -> _is_strict_sequence(s)
      [] name = "_is_map_template" -> _is_map_template(s)
      [] name = "_is_keyed_mapping" -> _is_keyed_mapping(s)

\* the handlers whose predicate accepts the schema, in the order of the map
MatchingHandlers(s) ==
    LET Test(entry) == DispatchPredicate(entry[1], s)
    IN  [i \in 1..Len(SelectSeq(DispatchMap, Test)) |-> SelectSeq(DispatchMap, Test)[i][2]]

\* next(chain(matching, [default])): the first matching handler, else the default
multiple_dispatch_fn(s) ==
    IF MatchingHandlers(s) # <<>> THEN Head(MatchingHandlers(s)) ELSE "default"

----------------------------------------------------------------------------
(* schemagic/validators.py: the partials made by predicate_validator *)

PVal(pred, arg, name, coercer, message) ==
    [t |-> "pv",
     v |-> [pred |-> pred, arg |-> arg, name |-> name,
            coercer |-> coercer, message |-> message]]

null == PVal("is_none", <<>>, "null", NoneV, NoneV)

or_(schemata) == PVal("any_schema", schemata, "any of schema's", NoneV, NoneV)

enum(possible_vals) ==
    PVal("in", possible_vals, "enumeration of allowable values", NoneV, NoneV)

formatted_string(str_format) ==
    PVal("re_match", <<str_format>>, "formatted_string", FnV("str"),
         StrV(<<"string not of expected format: expected: ", "<built-in function format>">>))

DigitsPattern == StrV(<<"\\", "d", "+">>)

\* re.match(pattern, s): a match at the start of s. The pattern is \d+ or
\* a literal without metacharacters.
ReMatch(pattern, s) ==
    IF pattern = DigitsPattern
    THEN Len(s.v) > 0 /\ IsDigit(s.v[1])
    ELSE Len(s.v) >= Len(pattern.v) /\ SubSeq(s.v, 1, Len(pattern.v)) = pattern.v

PredTrue(calls) == [raised |-> FALSE, truth |-> TRUE, exc |-> NoExc, calls |-> calls]

PredFalse(calls) == [raised |-> FALSE, truth |-> FALSE, exc |-> NoExc, calls |-> calls]

PredRaised(exc, calls) == [raised |-> TRUE, truth |-> FALSE, exc |-> exc, calls |-> calls]

----------------------------------------------------------------------------
(* schemagic/core.py: the matchers and validate_against_schema *)

RECURSIVE validate_against_schema(_, _, _)
RECURSIVE predicate_validator(_, _, _)
RECURSIVE AnySchema(_, _, _, _, _)
RECURSIVE MapValidate(_, _, _)
RECURSIVE MapTemplatePairs(_, _, _, _, _, _, _)
RECURSIVE MergeLoop(_, _, _, _, _)

\* f(x) for a value used as a function
CallCallable(f, x, path) ==
    CASE f.t = "fn" /\ f.v = "int" -> PyInt(x)
      [] f.t = "fn" /\ f.v = "str" -> Returns(PyStr(x), <<>>)
      [] f.t = "fn" /\ f.v = "IDENTITY" -> Returns(x, <<>>)
      [] f.t = "pv" -> predicate_validator(f, x, path)
      [] OTHER -> Raises(Exc("TypeError", "object is not callable", <<f>>), <<>>)

\* any(validate_against_schema(schema, val) for schema in schemata), from
\* the i-th schema on: an exception of a schema leaves the generator, the
\* truth of a schema's result decides
AnySchema(schemata, val, path, i, calls) ==
    IF i > Len(schemata) THEN PredFalse(calls)
    ELSE LET r == validate_against_schema(schemata[i], val, path)
         IN  IF ~r.ok THEN PredRaised(r.exc, calls \o r.calls)
             ELSE IF Truthy(r.val) THEN PredTrue(calls \o r.calls)
             ELSE AnySchema(schemata, val, path, i + 1, calls \o r.calls)

\* predicate(data) for the predicates of validators.py
EvalPredicate(pv, data, path) ==
    CASE pv.v.pred = "is_none" ->
            IF data = NoneV THEN PredTrue(<<>>) ELSE PredFalse(<<>>)
      [] pv.v.pred = "in" ->
            IF \E i \in 1..Len(pv.v.arg) : PyEq(data, pv.v.arg[i])
            THEN PredTrue(<<>>) ELSE PredFalse(<<>>)
      [] pv.v.pred = "re_match" ->
            IF ~is_string(data)
            THEN PredRaised(Exc("TypeError", "expected string or bytes-like object", <<data>>), <<>>)
            ELSE IF ReMatch(pv.v.arg[1], data) THEN PredTrue(<<>>) ELSE PredFalse(<<>>)
      [] pv.v.pred = "any_schema" -> AnySchema(pv.v.arg, data, path, 1, <<>>)

\* the text of the ValueError of predicate_validator: the message (or
\* the default naming the predicate) followed by the data
PredicateMessage(pv, data) ==
    <<IF Truthy(pv.v.message) THEN pv.v.message
      ELSE StrV(<<"data did not meet requirements of the predicate ", pv.v.name>>),
      data>>

\* predicate_validator whose coercer defaults to str instead of to none
predicate_validator_DefaultStr(pv, data, path) ==
    IF data = NoneV THEN Returns(pv, <<>>)
    ELSE LET c == CallCallable(IF Truthy(pv.v.coercer) THEN pv.v.coercer ELSE FnV("str"),
                               data, path)
         IN  IF ~c.ok THEN c
             ELSE LET p == EvalPredicate(pv, c.val, path)
                  IN  IF p.raised THEN Raises(p.exc, c.calls \o p.calls)
                      ELSE IF ~p.truth
                      THEN Raises(Exc("ValueError", "predicate",
                                      PredicateMessage(pv, c.val)),
                                  c.calls \o p.calls)
                      ELSE Returns(c.val, c.calls \o p.calls)

predicate_validator(pv, data, path) ==
    IF data = NoneV THEN Returns(pv, <<>>)
    ELSE LET c == IF Truthy(pv.v.coercer)
                  THEN CallCallable(pv.v.coercer, data, path)
                  ELSE Returns(data, <<>>)
         IN  IF ~c.ok THEN c
             ELSE LET p == EvalPredicate(pv, c.val, path)
                  IN  IF p.raised THEN Raises(p.exc, c.calls \o p.calls)
                      ELSE IF ~p.truth
                      THEN Raises(Exc("ValueError", "predicate",
                                      PredicateMessage(pv, c.val)),
                                  c.calls \o p.calls)
                      ELSE Returns(c.val, c.calls \o p.calls)

\* list(map(validate_against_schema, schemas, values)) over the calls in
\* items, left to right, stopping at the first exception
MapValidate(items, vals, calls) ==
    IF items = <<>> THEN Returns(SeqV(vals), calls)
    ELSE LET r == validate_against_schema(Head(items).schema, Head(items).value,
                                          Head(items).path)
         IN  IF ~r.ok THEN Raises(r.exc, calls \o r.calls)
             ELSE MapValidate(Tail(items), Append(vals, r.val), calls \o r.calls)

\* dict(map(validate_key_val_pair, value.keys(), value.values())) from the
\* i-th item on: each pair is validated (key first) and then stored
MapTemplatePairs(key_schema, value_schema, items, i, acc, calls, path) ==
    IF i > Len(items) THEN Returns(acc, calls)
    ELSE LET k == validate_against_schema(key_schema, items[i][1],
                                          path \o <<SetV({items[i][1]})>>)
         IN  IF ~k.ok THEN Raises(k.exc, calls \o k.calls)
             ELSE LET x == validate_against_schema(value_schema, items[i][2],
                                                   path \o <<items[i][1]>>)
                  IN  IF ~x.ok THEN Raises(x.exc, calls \o k.calls \o x.calls)
                      ELSE IF ~IsHashable(k.val)
                      THEN Raises(Exc("TypeError", "unhashable type", <<k.val>>),
                                  calls \o k.calls \o x.calls)
                      ELSE MapTemplatePairs(key_schema, value_schema, items, i + 1,
                                            DictSet(acc, k.val, x.val),
                                            calls \o k.calls \o x.calls, path)

validate_map_template(s, x, path) ==
    IF x.t # "map"
    THEN Raises(Exc("AttributeError", "object has no attribute 'keys'", <<x>>), <<>>)
    ELSE MapTemplatePairs(s.v[1][1], s.v[1][2], x.v, 1, MapV(<<>>), <<>>, path)

\* the loop of merge_with(validate_against_schema, a, b) from the i-th
\* item of b on; fresh_dict starts as the copy of a
MergeLoop(fresh_dict, b, i, calls, path) ==
    IF i > Len(b.v) THEN Returns(fresh_dict, calls)
    ELSE IF DictHas(fresh_dict, b.v[i][1])
    THEN LET r == validate_against_schema(DictGet(fresh_dict, b.v[i][1]), b.v[i][2],
                                          path \o <<b.v[i][1]>>)
         IN  IF ~r.ok THEN Raises(r.exc, calls \o r.calls)
             ELSE MergeLoop(DictSet(fresh_dict, b.v[i][1], r.val), b, i + 1,
                            calls \o r.calls, path)
    ELSE MergeLoop(DictSet(fresh_dict, b.v[i][1], b.v[i][2]), b, i + 1, calls, path)

\* merge_with that keeps only the colliding keys
merge_with_OnlyColliding(a, b, path) ==
    LET InA(item) == DictHas(a, item[1])
    IN  MergeLoop(a, MapV(SelectSeq(b.v, InA)), 1, <<>>, path)

merge_with(a, b, path) == MergeLoop(a, b, 1, <<>>, path)

\* validate_keyed_mapping that reports one missing key only
validate_keyed_mapping_FirstMissing(s, x, path) ==
    IF x.t # "map"
    THEN Raises(Exc("AttributeError", "object has no attribute 'keys'", <<x>>), <<>>)
    ELSE IF DictKeys(s) \ DictKeys(x) # {}
    THEN Raises(Exc("ValueError", "Missing keys",
                    <<SetV({CHOOSE k \in DictKeys(s) \ DictKeys(x) : TRUE}), x>>), <<>>)
    ELSE merge_with(s, x, path)

validate_keyed_mapping(s, x, path) ==
    IF x.t # "map"
    THEN Raises(Exc("AttributeError", "object has no attribute 'keys'", <<x>>), <<>>)
    ELSE IF DictKeys(s) \ DictKeys(x) # {}
    THEN Raises(Exc("ValueError", "Missing keys",
                    <<SetV(DictKeys(s) \ DictKeys(x)), x>>), <<>>)
    ELSE merge_with(s, x, path)

\* validate_sequence_template that maps over the schema itself instead of
\* its first element repeated, so that map stops after one element
validate_sequence_template_Zip(s, x, path) ==
    IF ~HasLen(x)
    THEN Raises(Exc("TypeError", "object has no len()", <<x>>), <<>>)
    ELSE MapValidate([i \in 1..(IF Len(x.v) < Len(s.v) THEN Len(x.v) ELSE Len(s.v)) |->
                         Call(path \o <<IntV(i - 1)>>, Elements(s)[i], Elements(x)[i])],
                     <<>>, <<>>)

validate_sequence_template(s, x, path) ==
    IF ~HasLen(x)
    THEN Raises(Exc("TypeError", "object has no len()", <<x>>), <<>>)
    ELSE MapValidate([i \in 1..Len(x.v) |->
                         Call(path \o <<IntV(i - 1)>>, Elements(s)[1], Elements(x)[i])],
                     <<>>, <<>>)

\* validate_strict_sequence without the comparison of the lengths
validate_strict_sequence_NoLengthCheck(s, x, path) ==
    IF ~HasLen(x)
    THEN Raises(Exc("TypeError", "object has no len()", <<x>>), <<>>)
    ELSE MapValidate([i \in 1..(IF Len(x.v) < Len(s.v) THEN Len(x.v) ELSE Len(s.v)) |->
                         Call(path \o <<IntV(i - 1)>>, Elements(s)[i], Elements(x)[i])],
                     <<>>, <<>>)

validate_strict_sequence(s, x, path) ==
    IF ~HasLen(x)
    THEN Raises(Exc("TypeError", "object has no len()", <<x>>), <<>>)
    ELSE IF Len(s.v) # Len(x.v)
    THEN Raises(Exc("ValueError", "sequence has a different number of elements",
                    <<x, s>>), <<>>)
    ELSE MapValidate([i \in 1..Len(x.v) |->
                         Call(path \o <<IntV(i - 1)>>, Elements(s)[i], Elements(x)[i])],
                     <<>>, <<>>)

\* the handler's outcome, with the dispatched call itself at the head of
\* the trace and the name of the handler in form
validate_against_schema(s, x, path) ==
    LET handler == multiple_dispatch_fn(s)
        r == CASE handler = "validate_sequence_template" -> validate_sequence_template(s, x, path)
               [] handler = "validate_strict_sequence" -> validate_strict_sequence(s, x, path)
               [] handler = "validate_map_template" -> validate_map_template(s, x, path)
               [] handler = "validate_keyed_mapping" -> validate_keyed_mapping(s, x, path)
               [] OTHER -> CallCallable(s, x, path)
    IN  [r EXCEPT !.form = handler, !.calls = <<Call(path, s, x)>> \o r.calls]

\* type(x).__name__
TypeName(x) ==
    CASE x.t = "none" -> "NoneType"
      [] x.t = "int" -> "int"
      [] x.t = "str" -> "str"
      [] x.t = "seq" -> "list"
      [] x.t = "tup" -> "tuple"
      [] x.t = "def" -> "function"
      [] x.t = "map" -> "dict"
      [] x.t = "set" -> "set"
      [] x.t = "fn" -> "type"
      [] OTHER -> "functools.partial"

\* the characters of str(e) for the exceptions of the model
ExcChars(e) ==
    CASE e.kind = "invalid literal for int()" ->
            <<"invalid literal for int() with base 10: ">> \o ReprChars(e.args[1])
      [] e.kind = "int() argument" ->
            <<"int() argument must be a string, a bytes-like object or a real number, not '",
              TypeName(e.args[1]), "'">>
      [] e.kind = "object is not callable" ->
            <<"'", TypeName(e.args[1]), "' object is not callable">>
      [] e.kind = "object has no attribute 'keys'" ->
            <<"'", TypeName(e.args[1]), "' object has no attribute 'keys'">>
      [] e.kind = "object has no len()" ->
            <<"object of type '", TypeName(e.args[1]), "' has no len()">>
      [] e.kind = "unhashable type" ->
            <<"unhashable type: '", TypeName(e.args[1]), "'">>
      [] e.kind = "predicate" ->
            e.args[1].v \o <<"\n value: ">> \o PyStr(e.args[2]).v
      [] e.kind = "Missing keys" ->
            <<"Missing keys ">> \o ReprChars(e.args[1]) \o <<" for value ">>
                \o PyStr(e.args[2]).v
      [] e.kind = "sequence has a different number of elements" ->
            <<"sequence has a different number of elements than its schema prescribes.  value: ">>
                \o PyStr(e.args[1]).v \o <<", schema: ">> \o PyStr(e.args[2]).v
      [] e.kind = "Bad value provided for" ->
            <<"Bad value provided for ">> \o e.args[1].v \o <<". - error: ">>
                \o e.args[2].v \o <<" schema: ">> \o PyStr(e.args[3]).v
                \o <<" value: ">> \o PyStr(e.args[4]).v
      [] e.kind = "got an unexpected keyword argument" ->
            <<"fn() got an unexpected keyword argument '">> \o e.args[1].v \o <<"'">>
      [] e.kind = "raised by the function" -> e.args[1].v
      [] OTHER -> <<e.kind>>

\* the partial validator(schema, subject_name_str, validation_predicate,
\* coerce_data) returns while data is not supplied
ValidatorV(s, subject, coerce) ==
    [t |-> "validator", v |-> [schema |-> s, subject |-> subject, coerce_data |-> coerce]]

\* core.py:150-160: the outcome r of validate_against_schema(schema, data)
\* becomes the value that flows forward, or the wrapped error
ValidatedOrWrapped(s, subject, coerce, data, r) ==
    IF r.ok THEN Returns(IF coerce THEN r.val ELSE data, r.calls)
    ELSE Raises(Exc("ValueError", "Bad value provided for",
                    <<subject, StrV(<<r.exc.type, ": ">> \o ExcChars(r.exc)), s, data>>),
                r.calls)

\* validator(schema, subject_name_str, validation_predicate, coerce_data,
\* data), where enabled is what validation_predicate() returns when it is
\* called
validator(s, subject, enabled, coerce, data) ==
    IF data = NoneV THEN Returns(ValidatorV(s, subject, coerce), <<>>)
    ELSE IF ~enabled THEN Returns(data, <<>>)
    ELSE ValidatedOrWrapped(s, subject, coerce, data,
                            validate_against_schema(s, data, <<>>))

----------------------------------------------------------------------------
(* the inputs: bounded sets of schemas and of values *)

MaxInt == 1

MaxLen == 2

MaxItems == 2

MaxSchemaLen == 2

\* the sequences over S of length 0..n
SeqsUpTo(S, n) == UNION {[1..m -> S] : m \in 0..n}

\* the item sequences of dicts with up to n items, keys in K, values in V
ItemsUpTo(K, V, n) ==
    {items \in SeqsUpTo(K \X V, n) :
        \A i, j \in 1..Len(items) : i # j => items[i][1] # items[j][1]}

Strs == {StrV(<<>>), StrV(<<"1">>), StrV(<<"a">>)}

Atoms == {NoneV} \cup {IntV(n) : n \in 0..MaxInt} \cup Strs

KeyAtoms == {StrV(<<"a">>), StrV(<<"b">>), StrV(<<"1">>), IntV(1)}

ItemAtoms == {IntV(1), StrV(<<"1">>), StrV(<<"a">>)}

Values ==
    Atoms
    \cup {SeqV(xs) : xs \in SeqsUpTo(Atoms, MaxLen)}
    \cup {MapV(items) : items \in ItemsUpTo(KeyAtoms, ItemAtoms, MaxItems)}
    \cup {SeqV(<<SeqV(<<IntV(1)>>), SeqV(<<>>)>>),
          MapV(<<<<StrV(<<"a">>), SeqV(<<StrV(<<"1">>)>>)>>>>),
          StrV(<<"0", "1">>), StrV(<<"1", "a">>)}

int == FnV("int")

str == FnV("str")

LeafSchemas ==
    {int, str, null, enum(<<StrV(<<"a">>), IntV(1)>>),
     or_(<<int>>), or_(<<int, str>>), or_(<<str, int>>), or_(<<null, int>>),
     formatted_string(DigitsPattern)}

ElemSchemas == {int, str, null, or_(<<str, int>>)}

Schemas ==
    LeafSchemas
    \cup {IntV(1), NoneV}
    \cup {SeqV(ss) : ss \in SeqsUpTo(ElemSchemas, MaxSchemaLen)}
    \cup {MapV(<<<<k, x>>>>) : k \in {int, str}, x \in ElemSchemas \cup {SeqV(<<int>>)}}
    \cup {MapV(items) : items \in ItemsUpTo({StrV(<<"a">>), StrV(<<"b">>)}, {int, str},
                                            MaxSchemaLen)}
    \cup {MapV(<<<<IntV(0), int>>, <<IntV(1), str>>>>),
          MapV(<<<<StrV(<<"a">>), int>>, <<IntV(1), str>>>>),
          SeqV(<<SeqV(<<int>>)>>),
          SeqV(<<MapV(<<<<StrV(<<"a">>), int>>>>)>>),
          MapV(<<<<StrV(<<"a">>), SeqV(<<int>>)>>>>)}

----------------------------------------------------------------------------
(* the state machine: one call on the chosen schema and value *)

NoResult == [ok |-> FALSE, val |-> NoVal, exc |-> NoExc, form |-> "", calls |-> <<>>]

\* no guarded call
NoGuard ==
    [input_schema |-> NoneV, output_schema |-> NoneV, fn |-> NoneV,
     args |-> <<>>, kwargs |-> MapV(<<>>)]

NoRun ==
    [packed |-> NoVal, in_called |-> FALSE, in |-> NoResult,
     args |-> NoVal, kwargs |-> NoVal, invocations |-> <<>>, ret |-> NoVal,
     out_called |-> FALSE, out |-> NoResult, npred |-> 0, final |-> NoResult]

\* no request
NoWeb ==
    [rule |-> <<>>, input_schema |-> NoneV, output_schema |-> NoneV, fn |-> NoneV,
     data |-> <<>>, x |-> NoVal, failed |-> "", exc |-> NoExc, invocations |-> <<>>,
     npred |-> 0, response |-> [status |-> 0, body |-> <<>>]]

Init ==
    /\ pc = "ready"
    /\ op = ""
    /\ schema \in Schemas
    /\ value \in Values
    /\ result = NoResult
    /\ coerce_data = FALSE
    /\ preds = <<>>
    /\ guard = NoGuard
    /\ run = NoRun
    /\ web = NoWeb

Done(name, outcome) ==
    /\ pc' = "done"
    /\ op' = name
    /\ result' = outcome
    /\ UNCHANGED <<schema, value, coerce_data, preds, guard, run, web>>

\* validate_against_schema(schema, value)
Validate ==
    /\ pc = "ready"
    /\ Done("validate_against_schema", validate_against_schema(schema, value, <<>>))

\* validate_map_template(schema, value) on a map template
ValidateMapTemplate ==
    /\ pc = "ready"
    /\ _is_map_template(schema)
    /\ Done("validate_map_template", validate_map_template(schema, value, <<>>))

\* validate_keyed_mapping(schema, value) on a keyed mapping
ValidateKeyedMapping ==
    /\ pc = "ready"
    /\ _is_keyed_mapping(schema)
    /\ Done("validate_keyed_mapping", validate_keyed_mapping(schema, value, <<>>))

\* validate_sequence_template(schema, value) on a sequence template
ValidateSequenceTemplate ==
    /\ pc = "ready"
    /\ _is_sequence_template(schema)
    /\ Done("validate_sequence_template", validate_sequence_template(schema, value, <<>>))

\* validate_strict_sequence(schema, value) on a strict sequence
ValidateStrictSequence ==
    /\ pc = "ready"
    /\ _is_strict_sequence(schema)
    /\ Done("validate_strict_sequence", validate_strict_sequence(schema, value, <<>>))

\* validator(value) for a validator made by predicate_validator
ApplyValidator ==
    /\ pc = "ready"
    /\ schema.t = "pv"
    /\ Done("predicate_validator", predicate_validator(schema, value, <<>>))

Next ==
    \/ Validate
    \/ ValidateMapTemplate
    \/ ValidateKeyedMapping
    \/ ValidateSequenceTemplate
    \/ ValidateStrictSequence
    \/ ApplyValidator

Spec == Init /\ [][Next]_vars

TypeOK ==
    /\ pc \in {"ready", "done"}
    /\ schema \in Schemas
    /\ value \in Values
    /\ result.ok \in BOOLEAN

----------------------------------------------------------------------------
(* properties *)

\* the call of the named matcher has returned or raised, made directly or
\* through validate_against_schema
Handled(name) ==
    /\ pc = "done"
    /\ \/ op = name
       \/ op = "validate_against_schema" /\ result.form = name

\* the validate_against_schema calls made by the matcher itself
MatcherCalls ==
    IF op = "validate_against_schema" THEN Tail(result.calls) ELSE result.calls

\* the form the classification rule of the specification gives a schema
SpecifiedForm(s) ==
    IF s.t = "seq" /\ Len(s.v) = 1 THEN "validate_sequence_template"
    ELSE IF s.t = "seq" /\ Len(s.v) >= 2 THEN "validate_strict_sequence"
    ELSE IF s.t = "map" /\ Len(s.v) = 1 /\ s.v[1][1].t # "str" THEN "validate_map_template"
    ELSE IF s.t = "map" /\ (\A k \in DictKeys(s) : k.t = "str") THEN "validate_keyed_mapping"
    ELSE "default"

\* C1: validate_against_schema handles every schema by exactly one form, the
\* one its shape gives: one-element sequence -> sequence template, longer
\* sequence -> strict sequence, single-entry mapping with a non-string key ->
\* map template, mapping with string keys -> keyed mapping, anything else ->
\* leaf function; no schema satisfies two of the dispatch predicates.
C1_Classification ==
    (pc = "done" /\ op = "validate_against_schema") =>
        /\ result.form = SpecifiedForm(schema)
        /\ Len(MatchingHandlers(schema)) <= 1

\* the outcome of validating the value's entry k against the schema's entry k
EntryOutcome(k) ==
    validate_against_schema(DictGet(schema, k), DictGet(value, k), <<k>>)

HasAllKeys == value.t = "map" /\ DictKeys(schema) \subseteq DictKeys(value)

\* the result holds exactly the value's keys, the validated entry under
\* every schema key and the original entry under every other key
MergedResult ==
    /\ result.val.t = "map"
    /\ DictKeys(result.val) = DictKeys(value)
    /\ \A k \in DictKeys(schema) : DictGet(result.val, k) = EntryOutcome(k).val
    /\ \A k \in DictKeys(value) \ DictKeys(schema) :
          DictGet(result.val, k) = DictGet(value, k)

\* no entry of the value outside the schema was passed to a schema
ExtrasNotValidated ==
    \A k \in DictKeys(value) \ DictKeys(schema) :
        \A i \in 1..Len(MatcherCalls) : MatcherCalls[i].path[1] # k

\* C2 as stated: when the value has every key of the schema,
\* validate_keyed_mapping succeeds, returns the merged mapping and passes no
\* extra entry to a schema.
C2_AlwaysSucceeds ==
    (Handled("validate_keyed_mapping") /\ HasAllKeys) =>
        /\ result.ok
        /\ MergedResult
        /\ ExtrasNotValidated

\* C2 amended: when the value has every key of the schema,
\* validate_keyed_mapping succeeds exactly when every schema key's entry
\* validates and then returns the merged mapping; otherwise it fails with
\* the error of a failing entry; in either case it passes no extra entry to
\* a schema.
C2_KeyedMappingMerge ==
    (Handled("validate_keyed_mapping") /\ HasAllKeys) =>
        /\ result.ok <=> \A k \in DictKeys(schema) : EntryOutcome(k).ok
        /\ result.ok => MergedResult
        /\ ~result.ok =>
              \E k \in DictKeys(schema) :
                  ~EntryOutcome(k).ok /\ result.exc = EntryOutcome(k).exc
        /\ ExtrasNotValidated

\* a keyed mapping accepted a value with an extra entry and coerced an entry
C2_Witness ==
    /\ Handled("validate_keyed_mapping") /\ HasAllKeys
    /\ result.ok
    /\ DictKeys(value) \ DictKeys(schema) # {}
    /\ \E k \in DictKeys(schema) : DictGet(result.val, k) # DictGet(value, k)

MissingKeys == DictKeys(schema) \ DictKeys(value)

\* C3: when the mapping value lacks keys of the schema, validate_keyed_mapping
\* fails with the missing-keys error carrying the full set of missing keys
\* and the value, and has applied no schema to any entry.
C3_MissingKeys ==
    (Handled("validate_keyed_mapping") /\ value.t = "map" /\ MissingKeys # {}) =>
        /\ ~result.ok
        /\ result.exc.type = "ValueError"
        /\ result.exc.kind = "Missing keys"
        /\ result.exc.args = <<SetV(MissingKeys), value>>
        /\ MatcherCalls = <<>>

\* two keys are missing from a value that has a key the schema could check
C3_Witness ==
    /\ Handled("validate_keyed_mapping") /\ value.t = "map"
    /\ Cardinality(MissingKeys) >= 2
    /\ value.v # <<>>
    /\ ~result.ok
    /\ result.exc.args[1] = SetV(MissingKeys)

\* the outcome of validating element i of the value against schema s
ElementOutcome(s, i) == validate_against_schema(s, value.v[i], <<IntV(i - 1)>>)

\* C4: a sequence value of n elements against [S] gives the n results of
\* validating each element against S, in order; it fails exactly when some
\* element fails, and the empty sequence gives the empty sequence.
C4_SequenceTemplate ==
    (Handled("validate_sequence_template") /\ value.t = "seq") =>
        /\ result.ok <=> \A i \in 1..Len(value.v) : ElementOutcome(schema.v[1], i).ok
        /\ result.ok =>
              result.val = SeqV([i \in 1..Len(value.v) |-> ElementOutcome(schema.v[1], i).val])
        /\ value.v = <<>> => result.ok /\ result.val = SeqV(<<>>)

\* a sequence template accepted two elements and coerced one of them
C4_Witness ==
    /\ Handled("validate_sequence_template") /\ value.t = "seq"
    /\ Len(value.v) = 2
    /\ result.ok
    /\ Len(result.val.v) = 2
    /\ result.val # value

\* C5: a sequence template against a value that is not a sequence (a
\* number, a string, a mapping or null) fails and returns no result.
C5_NonSequenceRejected ==
    (Handled("validate_sequence_template") /\ value.t \in {"int", "str", "map", "none"}) =>
        ~result.ok

\* C6: a sequence value against a strict sequence of k >= 2 schemas fails
\* with the length-mismatch error, no schema applied, when its length is
\* not k; when its length is k the outcome is that of validating element i
\* against schema i, in order.
C6_StrictSequence ==
    (Handled("validate_strict_sequence") /\ value.t = "seq") =>
        /\ Len(value.v) # Len(schema.v) =>
              /\ ~result.ok
              /\ result.exc.type = "ValueError"
              /\ result.exc.kind = "sequence has a different number of elements"
              /\ MatcherCalls = <<>>
        /\ Len(value.v) = Len(schema.v) =>
              /\ result.ok <=> \A i \in 1..Len(value.v) : ElementOutcome(schema.v[i], i).ok
              /\ result.ok =>
                    result.val = SeqV([i \in 1..Len(value.v) |->
                                          ElementOutcome(schema.v[i], i).val])

\* a strict sequence rejected a shorter, non-empty sequence whose elements
\* all match the schemas at their positions
C6_Witness ==
    /\ Handled("validate_strict_sequence") /\ value.t = "seq"
    /\ Len(value.v) >= 1
    /\ Len(value.v) < Len(schema.v)
    /\ \A i \in 1..Len(value.v) : ElementOutcome(schema.v[i], i).ok
    /\ ~result.ok
    /\ result.exc.kind = "sequence has a different number of elements"

\* the outcomes of validating the key and the value of item i of the value
\* against the key schema and the value schema of the map template
KeyOutcome(i) ==
    validate_against_schema(schema.v[1][1], value.v[i][1], <<SetV({value.v[i][1]})>>)

ValOutcome(i) ==
    validate_against_schema(schema.v[1][2], value.v[i][2], <<value.v[i][1]>>)

\* C7: a mapping value against a map template {K: V} succeeds exactly when
\* every key validates against K and every value against V, and the result
\* then holds the entry validate(K, k) -> validate(V, v) for every entry
\* (k, v) of the value and has one entry per entry of the value.
C7_MapTemplate ==
    (Handled("validate_map_template") /\ value.t = "map") =>
        /\ result.ok <=> \A i \in 1..Len(value.v) : KeyOutcome(i).ok /\ ValOutcome(i).ok
        /\ result.ok =>
              /\ result.val.t = "map"
              /\ Len(result.val.v) = Len(value.v)
              /\ \A i \in 1..Len(value.v) :
                    /\ DictHas(result.val, KeyOutcome(i).val)
                    /\ DictGet(result.val, KeyOutcome(i).val) = ValOutcome(i).val

\* a validator made by predicate_validator has been applied to the value,
\* directly or as a leaf schema
Applied ==
    /\ pc = "done"
    /\ op \in {"predicate_validator", "validate_against_schema"}
    /\ schema.t = "pv"

AppliedOr == Applied /\ schema.v.pred = "any_schema"

\* the outcome of validating the value against the i-th schema of or_
AlternativeOutcome(i) == validate_against_schema(schema.v.arg[i], value, <<>>)

\* the schemas of or_ that accept the value
Accepting == {i \in 1..Len(schema.v.arg) : AlternativeOutcome(i).ok}

FirstAccepting == CHOOSE i \in Accepting : \A j \in Accepting : i <= j

\* C8: or_(S1, ..., Sn) succeeds on a value exactly when the value
\* validates against at least one of S1..Sn.
C8_OrAcceptsIffSome ==
    AppliedOr => (result.ok <=> Accepting # {})

\* C9 as stated: when or_ succeeds it returns the result of the first
\* schema, in argument order, that accepted the value.
C9_FirstResult ==
    (AppliedOr /\ result.ok) =>
        /\ Accepting # {}
        /\ result.val = AlternativeOutcome(FirstAccepting).val

\* C9 amended: when or_ succeeds it returns the value it was given,
\* unchanged, whatever the accepting schemas return; for the null value it
\* returns the validator itself, curried.
C9_OrReturnsInput ==
    (AppliedOr /\ result.ok) =>
        result.val = IF value = NoneV THEN schema ELSE value

\* or_ accepted a value that its first accepting schema coerces to
\* something else
C9_Witness ==
    /\ AppliedOr /\ result.ok
    /\ Accepting # {}
    /\ AlternativeOutcome(FirstAccepting).val # value
    /\ result.val = value

\* the value after the coercer of the validator
Coerced ==
    IF Truthy(schema.v.coercer)
    THEN CallCallable(schema.v.coercer, value, <<>>)
    ELSE Returns(value, <<>>)

\* C10: a validator made by predicate_validator coerces first, evaluates
\* the predicate on the coerced value, and then either returns the coerced
\* value (predicate true) or fails with the error that carries the coerced
\* value (predicate false), nothing else; formatted_string applied to a
\* number returns its string form.
C10_PredicateValidator ==
    Applied =>
        /\ Coerced.ok
        /\ LET p == EvalPredicate(schema, Coerced.val, <<>>)
           IN  \/ /\ result.ok
                  /\ ~p.raised /\ p.truth
                  /\ result.val = Coerced.val
               \/ /\ ~result.ok
                  /\ ~p.raised /\ ~p.truth
                  /\ result.exc.kind = "predicate"
                  /\ result.exc.args[2] = Coerced.val
        /\ (schema.v.pred = "re_match" /\ value.t = "int") =>
              result.ok /\ result.val = StrV(IntToChars(value.v))

\* C18: an empty sequence used as a schema is rejected with an error for
\* every value; validate_against_schema never returns a result for it.
C18_EmptySequenceSchema ==
    (pc = "done" /\ op = "validate_against_schema" /\ schema = SeqV(<<>>)) =>
        /\ ~result.ok
        /\ result.exc.type = "TypeError"
        /\ result.form = "default"

\* the empty sequence schema rejected the empty sequence value, the value a
\* sequence schema without elements would match
C18_Witness ==
    /\ pc = "done" /\ op = "validate_against_schema"
    /\ schema = SeqV(<<>>)
    /\ value = SeqV(<<>>)
    /\ ~result.ok

\* C19: every schema handled as a keyed mapping has only string keys; a
\* mapping schema with two or more entries and a key that is not a string
\* is rejected and never validated as a keyed mapping.
C19_KeyedMappingStringKeys ==
    (pc = "done" /\ op = "validate_against_schema") =>
        /\ result.form = "validate_keyed_mapping" =>
              \A k \in DictKeys(schema) : is_string(k)
        /\ (schema.t = "map" /\ Len(schema.v) >= 2
               /\ \E k \in DictKeys(schema) : ~is_string(k)) => ~result.ok

\* C16: coercion is idempotent: when validate_against_schema(S, V) succeeds
\* with result R, validate_against_schema(S, R) succeeds too.
C16_CoercionIdempotent ==
    (pc = "done" /\ op = "validate_against_schema" /\ result.ok) =>
        validate_against_schema(schema, result.val, <<>>).ok

----------------------------------------------------------------------------
(* core.validator applied to the chosen schema and value *)

InitValidator ==
    /\ pc = "ready"
    /\ op = ""
    /\ schema \in Schemas
    /\ value \in Values
    /\ result = NoResult
    /\ coerce_data \in BOOLEAN
    /\ preds \in {<<TRUE>>, <<FALSE>>}
    /\ guard = NoGuard
    /\ run = NoRun
    /\ web = NoWeb

SubjectText == StrV(<<"My Business Type">>)

\* validator(schema, subject_name_str, validation_predicate, coerce_data)(value)
RunValidator ==
    /\ pc = "ready"
    /\ Done("validator", validator(schema, SubjectText, preds[1], coerce_data, value))

NextValidator == RunValidator

SpecValidator == InitValidator /\ [][NextValidator]_vars

\* C14: with validation enabled, a validator built by validator(schema,
\* name, predicate, coerce_data) returns validate_against_schema(schema,
\* data) for valid data when coerce_data is true and the original data when
\* it is false, and fails with the wrapped error for invalid data in both
\* modes.
C14_CoerceFlag ==
    (pc = "done" /\ op = "validator" /\ preds[1]) =>
        LET v == validate_against_schema(schema, value, <<>>)
        IN  /\ v.ok => /\ result.ok
                       /\ result.val = IF coerce_data THEN v.val ELSE value
            /\ ~v.ok => /\ ~result.ok
                        /\ result.exc.kind = "Bad value provided for"

----------------------------------------------------------------------------
(* func.py: the guard `validated` around a function of the caller *)

IDENTITY == FnV("IDENTITY")

\* a function of the caller: kind "sum" returns the sum of its positional arguments, kind
\* "ret" takes any arguments and returns ret, kind "raise" raises its own error
DefV(kind, ret) == [t |-> "def", v |-> [kind |-> kind, ret |-> ret]]

FnName == <<"f", "n">>

InputSubject == StrV(<<"i", "n", "p", "u", "t", " to function ">> \o FnName)

OutputSubject == StrV(<<"o", "u", "t", "p", "u", "t", " from function ">> \o FnName)

\* input_validator and output_validator of validated: validator called
\* without data
input_validator(g, coerce) ==
    validator(IF Truthy(g.input_schema) THEN g.input_schema ELSE IDENTITY,
              InputSubject, TRUE, coerce, NoneV).val

output_validator(g, coerce) ==
    validator(IF Truthy(g.output_schema) THEN g.output_schema ELSE IDENTITY,
              OutputSubject, TRUE, coerce, NoneV).val

\* v(data) for a curried validator v
CallValidator(v, enabled, data) ==
    validator(v.v.schema, v.v.subject, enabled, v.v.coerce_data, data)

\* x[:-1]
AllButLast(x) ==
    IF x.t \in {"seq", "tup", "str"}
    THEN Returns([x EXCEPT !.v = SubSeq(x.v, 1, Len(x.v) - 1)], <<>>)
    ELSE Raises(Exc("TypeError", "object is not subscriptable", <<x>>), <<>>)

\* x[-1]
LastOf(x) ==
    IF x.t \in {"seq", "tup"} /\ Len(x.v) > 0 THEN Returns(x.v[Len(x.v)], <<>>)
    ELSE IF x.t = "str" /\ Len(x.v) > 0 THEN Returns(StrV(<<x.v[Len(x.v)]>>), <<>>)
    ELSE IF x.t \in {"seq", "tup", "str"}
    THEN Raises(Exc("IndexError", "index out of range", <<x>>), <<>>)
    ELSE Raises(Exc("TypeError", "object is not subscriptable", <<x>>), <<>>)

\* what validate_function_input hands back: the arguments to call the
\* function with, or the error; packed, called and in record the value
\* handed to the input validator, whether it was called, and its outcome
InputResult(ok, args, kwargs, exc, packed, called, in) ==
    [ok |-> ok, args |-> args, kwargs |-> kwargs, exc |-> exc,
     packed |-> packed, called |-> called, in |-> in]

PackedInput_SingleAsSequence(arg_list, kwarg_dict) ==
    IF Len(arg_list.v) > 0 /\ Len(kwarg_dict.v) > 0
    THEN TupV(arg_list.v \o <<kwarg_dict>>)
    ELSE IF Len(kwarg_dict.v) > 0 THEN kwarg_dict
    ELSE IF Len(arg_list.v) >= 1 THEN arg_list
    ELSE NoVal

\* the value validate_function_input hands to the input validator, by the
\* branch it takes (func.py:31, 34, 37, 40); NoVal when it calls no validator
PackedInput(arg_list, kwarg_dict) ==
    IF Len(arg_list.v) > 0 /\ Len(kwarg_dict.v) > 0
    THEN TupV(arg_list.v \o <<kwarg_dict>>)
    ELSE IF Len(kwarg_dict.v) > 0 THEN kwarg_dict
    ELSE IF Len(arg_list.v) > 1 THEN arg_list
    ELSE IF Len(arg_list.v) = 1 THEN arg_list.v[1]
    ELSE NoVal

\* args, kwargs of the branch taken, from the outcome r of the input
\* validator on the packed value (func.py:33, 36, 39, 42)
UnpackValidated(arg_list, kwarg_dict, packed, r) ==
    IF ~r.ok
    THEN InputResult(FALSE, NoVal, NoVal, r.exc, packed, TRUE, r)
    ELSE IF Len(arg_list.v) > 0 /\ Len(kwarg_dict.v) > 0
    THEN IF AllButLast(r.val).ok /\ LastOf(r.val).ok
         THEN InputResult(TRUE, AllButLast(r.val).val, LastOf(r.val).val,
                          NoExc, packed, TRUE, r)
         ELSE InputResult(FALSE, NoVal, NoVal, AllButLast(r.val).exc, packed, TRUE, r)
    ELSE IF Len(kwarg_dict.v) > 0
    THEN InputResult(TRUE, SeqV(<<>>), r.val, NoExc, packed, TRUE, r)
    ELSE IF Len(arg_list.v) > 1
    THEN InputResult(TRUE, r.val, MapV(<<>>), NoExc, packed, TRUE, r)
    ELSE InputResult(TRUE, SeqV(<<r.val>>), MapV(<<>>), NoExc, packed, TRUE, r)

\* validate_function_input(input_validator, arg_list, kwarg_dict), where
\* enabled is the answer of the validation predicate if it is asked
validate_function_input(iv, enabled, arg_list, kwarg_dict) ==
    IF PackedInput(arg_list, kwarg_dict) = NoVal
    THEN InputResult(TRUE, arg_list, kwarg_dict, NoExc, NoVal, FALSE, NoResult)
    ELSE UnpackValidated(arg_list, kwarg_dict, PackedInput(arg_list, kwarg_dict),
                         CallValidator(iv, enabled, PackedInput(arg_list, kwarg_dict)))

RECURSIVE SumInts(_)
\* sum(nums) for integers
SumInts(xs) == IF xs = <<>> THEN 0 ELSE Head(xs).v + SumInts(Tail(xs))

\* an invocation of the function of the caller
Invocation(args, kwargs) == [args |-> args, kwargs |-> kwargs]

\* fn called with starred args and kwargs: invoked lists the invocations of the function body
CallResult(outcome, invoked) == [outcome |-> outcome, invoked |-> invoked]

CallFn_NoStar(f, args, kwargs) ==
    IF args.t \notin {"seq", "tup", "str", "map", "set"}
    THEN CallResult(Raises(Exc("TypeError", "argument after * must be an iterable",
                               <<args>>), <<>>), <<>>)
    ELSE IF kwargs.t # "map"
    THEN CallResult(Raises(Exc("TypeError", "argument after ** must be a mapping",
                               <<kwargs>>), <<>>), <<>>)
    ELSE IF \E k \in DictKeys(kwargs) : ~is_string(k)
    THEN CallResult(Raises(Exc("TypeError", "keywords must be strings", <<>>), <<>>), <<>>)
    ELSE LET xs == <<args>>
             inv == <<Invocation(xs, kwargs)>>
         IN  CASE f.v.kind = "sum" ->
                    IF Len(kwargs.v) > 0
                    THEN CallResult(Raises(Exc("TypeError",
                                               "got an unexpected keyword argument",
                                               <<kwargs.v[1][1]>>), <<>>), <<>>)
                    ELSE IF \A i \in 1..Len(xs) : xs[i].t = "int"
                    THEN CallResult(Returns(IntV(SumInts(xs)), <<>>), inv)
                    ELSE CallResult(Raises(Exc("TypeError", "unsupported operand type(s) for +",
                                               <<>>), <<>>), inv)
               [] f.v.kind = "ret" -> CallResult(Returns(f.v.ret, <<>>), inv)
               [] OTHER -> CallResult(Raises(Exc("Exception", "raised by the function",
                                                 <<f.v.ret>>), <<>>), inv)

CallFn(f, args, kwargs) ==
    IF args.t \notin {"seq", "tup", "str", "map", "set"}
    THEN CallResult(Raises(Exc("TypeError", "argument after * must be an iterable",
                               <<args>>), <<>>), <<>>)
    ELSE IF kwargs.t # "map"
    THEN CallResult(Raises(Exc("TypeError", "argument after ** must be a mapping",
                               <<kwargs>>), <<>>), <<>>)
    ELSE IF \E k \in DictKeys(kwargs) : ~is_string(k)
    THEN CallResult(Raises(Exc("TypeError", "keywords must be strings", <<>>), <<>>), <<>>)
    ELSE LET xs == IF args.t = "set" THEN SetToSeq(args.v) ELSE Elements(args)
             inv == <<Invocation(xs, kwargs)>>
         IN  CASE f.v.kind = "sum" ->
                    IF Len(kwargs.v) > 0
                    THEN CallResult(Raises(Exc("TypeError",
                                               "got an unexpected keyword argument",
                                               <<kwargs.v[1][1]>>), <<>>), <<>>)
                    ELSE IF \A i \in 1..Len(xs) : xs[i].t = "int"
                    THEN CallResult(Returns(IntV(SumInts(xs)), <<>>), inv)
                    ELSE CallResult(Raises(Exc("TypeError", "unsupported operand type(s) for +",
                                               <<>>), <<>>), inv)
               [] f.v.kind = "ret" -> CallResult(Returns(f.v.ret, <<>>), inv)
               [] OTHER -> CallResult(Raises(Exc("Exception", "raised by the function",
                                                 <<f.v.ret>>), <<>>), inv)

----------------------------------------------------------------------------
(* a guarded call of f = validated(...)(fn), step by step *)

MaxArgs == 2

AKey == StrV(<<"a">>)

ArgAtoms == {IntV(n) : n \in 0..MaxInt} \cup {AKey, NoneV}

ArgLists == {TupV(xs) : xs \in SeqsUpTo(ArgAtoms, MaxArgs)}

KwargDicts == {MapV(<<>>), MapV(<<<<AKey, IntV(1)>>>>), MapV(<<<<AKey, AKey>>>>)}

InputSchemas ==
    {NoneV, int, str, SeqV(<<int>>), SeqV(<<int, MapV(<<<<AKey, int>>>>)>>),
     MapV(<<<<AKey, int>>>>)}

OutputSchemas == {NoneV, int, str}

Fns ==
    {DefV("sum", NoneV), DefV("ret", NoneV), DefV("ret", IntV(1)), DefV("ret", AKey),
     DefV("raise", AKey)}

InitGuard ==
    /\ pc = "called"
    /\ op = "validated"
    /\ schema = NoneV
    /\ value = NoneV
    /\ result = NoResult
    /\ coerce_data \in BOOLEAN
    /\ preds \in [1..2 -> BOOLEAN]
    /\ \E i \in InputSchemas, o \in OutputSchemas, f \in Fns,
          a \in ArgLists, k \in KwargDicts :
            guard = [input_schema |-> i, output_schema |-> o, fn |-> f,
                     args |-> a, kwargs |-> k]
    /\ run = NoRun
    /\ web = NoWeb

\* the predicate is asked by a validator that is handed data other than None
Asked(data) == IF data = NoneV THEN 0 ELSE 1

\* func.py:26  validate_function_input(input_validator, args, kwargs)
GuardInput ==
    /\ pc = "called"
    /\ \E r \in {validate_function_input(input_validator(guard, coerce_data),
                                           preds[run.npred + 1], guard.args, guard.kwargs)} :
           /\ run' = [run EXCEPT !.packed = r.packed,
                                 !.in_called = r.called,
                                 !.in = r.in,
                                 !.args = r.args,
                                 !.kwargs = r.kwargs,
                                 !.npred = IF r.called THEN @ + Asked(r.packed) ELSE @,
                                 !.final = IF r.ok THEN NoResult ELSE Raises(r.exc, <<>>)]
           /\ pc' = IF r.ok THEN "validated" ELSE "raised"
    /\ UNCHANGED <<op, schema, value, result, coerce_data, preds, guard, web>>

\* func.py:27  fn called with the validated arguments
GuardInvoke ==
    /\ pc = "validated"
    /\ \E c \in {CallFn(guard.fn, run.args, run.kwargs)} :
           /\ run' = [run EXCEPT !.invocations = @ \o c.invoked,
                                 !.ret = IF c.outcome.ok THEN c.outcome.val ELSE NoVal,
                                 !.final = IF c.outcome.ok THEN NoResult ELSE c.outcome]
           /\ pc' = IF c.outcome.ok THEN "invoked" ELSE "raised"
    /\ UNCHANGED <<op, schema, value, result, coerce_data, preds, guard, web>>

\* func.py:27  return output_validator(...)
GuardOutput ==
    /\ pc = "invoked"
    /\ \E r \in {CallValidator(output_validator(guard, coerce_data),
                                 preds[run.npred + 1], run.ret)} :
           /\ run' = [run EXCEPT !.out_called = TRUE,
                                 !.out = r,
                                 !.npred = @ + Asked(run.ret),
                                 !.final = [r EXCEPT !.calls = <<>>]]
           /\ pc' = IF r.ok THEN "returned" ELSE "raised"
    /\ UNCHANGED <<op, schema, value, result, coerce_data, preds, guard, web>>

NextGuard == GuardInput \/ GuardInvoke \/ GuardOutput

SpecGuard == InitGuard /\ [][NextGuard]_vars

\* the call has ended, with a value or with an error
GuardEnded == op = "validated" /\ pc \in {"returned", "raised"}

\* validate_against_schema ran on the input / on the output of the call
InputValidated == run.in_called /\ run.in.calls # <<>>

OutputValidated == run.out_called /\ run.out.calls # <<>>

\* the value the rule of the specification hands to the input validator
PackRule(a, k) ==
    IF Len(a.v) > 0 /\ Len(k.v) > 0 THEN TupV(a.v \o <<k>>)
    ELSE IF Len(k.v) > 0 THEN k
    ELSE IF Len(a.v) >= 2 THEN a
    ELSE IF Len(a.v) = 1 THEN a.v[1]
    ELSE NoVal

\* C11: validate_function_input packs positional and keyword arguments into
\* the sequence (positional..., keywords) and unpacks all-but-last and
\* last; only keywords into the keyword mapping itself; two or more
\* positionals into their sequence; one positional into that argument
\* itself; with no arguments the input validator is not called and the
\* empty arguments pass through untouched.
C11_PackUnpack ==
    (op = "validated" /\ pc # "called") =>
        LET a == guard.args
            k == guard.kwargs
            v == run.in.val
        IN  /\ run.packed = PackRule(a, k)
            /\ run.in_called <=> (Len(a.v) > 0 \/ Len(k.v) > 0)
            /\ run.in_called => run.in = CallValidator(input_validator(guard, coerce_data),
                                                      preds[1], run.packed)
            /\ run.args = NoVal <=> pc = "raised" /\ run.invocations = <<>>
                                    /\ run.final.exc \in {run.in.exc, AllButLast(v).exc}
            /\ (run.args # NoVal /\ Len(a.v) > 0 /\ Len(k.v) > 0) =>
                  /\ run.args = [v EXCEPT !.v = SubSeq(v.v, 1, Len(v.v) - 1)]
                  /\ run.kwargs = IF v.t = "str" THEN StrV(<<v.v[Len(v.v)]>>)
                                  ELSE v.v[Len(v.v)]
            /\ (run.args # NoVal /\ Len(a.v) = 0 /\ Len(k.v) > 0) =>
                  Len(run.args.v) = 0 /\ run.kwargs = v
            /\ (run.args # NoVal /\ Len(a.v) >= 2 /\ Len(k.v) = 0) =>
                  run.args = v /\ Len(run.kwargs.v) = 0
            /\ (run.args # NoVal /\ Len(a.v) = 1 /\ Len(k.v) = 0) =>
                  run.args.v = <<v>> /\ Len(run.kwargs.v) = 0
            /\ (run.args # NoVal /\ Len(a.v) = 0 /\ Len(k.v) = 0) =>
                  run.args = a /\ run.kwargs = k /\ run.in = NoResult

\* one positional argument was handed over unwrapped and came back as the
\* only positional argument
C11_Witness ==
    /\ op = "validated" /\ pc = "validated"
    /\ Len(guard.args.v) = 1 /\ Len(guard.kwargs.v) = 0
    /\ guard.input_schema = int /\ preds[1]
    /\ run.packed = guard.args.v[1]
    /\ run.in.calls # <<>>
    /\ run.args.v = <<run.in.val>>

\* the guard has input schema [int] and no output schema, validation is
\* enabled, and the call has integer positional arguments and no keywords
VariadicCall ==
    /\ GuardEnded
    /\ guard.input_schema = SeqV(<<int>>)
    /\ guard.output_schema = NoneV
    /\ preds = <<TRUE, TRUE>>
    /\ \A i \in 1..Len(guard.args.v) : guard.args.v[i].t = "int"
    /\ Len(guard.kwargs.v) = 0

\* the arguments were validated as a sequence against [int] and the
\* function was invoked exactly once with exactly those arguments
ValidatedAndInvokedOnce ==
    /\ run.packed = guard.args
    /\ run.in.calls = <<Call(<<>>, SeqV(<<int>>), guard.args)>>
                          \o [i \in 1..Len(guard.args.v) |->
                                Call(<<IntV(i - 1)>>, int, guard.args.v[i])]
    /\ run.invocations = <<Invocation(guard.args.v, MapV(<<>>))>>

\* C12 (as stated): for every n >= 1 integer positional arguments the guard
\* with input schema [int] validates them as a sequence, invokes the
\* function once with those n arguments and returns the function's result.
C12_VariadicAnyCount ==
    (VariadicCall /\ Len(guard.args.v) >= 1) =>
        /\ ValidatedAndInvokedOnce
        /\ guard.fn.v.kind = "sum" =>
              pc = "returned" /\ run.final.val = IntV(SumInts(guard.args.v))
        /\ guard.fn.v.kind = "ret" =>
              pc = "returned" /\ run.final.val = guard.fn.v.ret

\* C12 (amended): for n >= 2 integer positional arguments the guard with
\* input schema [int] validates them as a sequence, invokes the function
\* once with those n arguments in order, and for the summing function
\* returns the sum; a single argument is validated unwrapped, fails as an
\* input failure, and the function is not invoked.
C12_VariadicTwoOrMore ==
    /\ (VariadicCall /\ Len(guard.args.v) >= 2) =>
          /\ ValidatedAndInvokedOnce
          /\ guard.fn.v.kind = "sum" =>
                pc = "returned" /\ run.final.val = IntV(SumInts(guard.args.v))
    /\ (VariadicCall /\ Len(guard.args.v) = 1) =>
          /\ run.packed = guard.args.v[1]
          /\ pc = "raised"
          /\ run.final.exc.kind = "Bad value provided for"
          /\ run.final.exc.args[1] = InputSubject
          /\ run.invocations = <<>>

C12_Witness ==
    /\ VariadicCall
    /\ guard.args = TupV(<<IntV(1), IntV(1)>>)
    /\ guard.fn = DefV("sum", NoneV)
    /\ run.invocations = <<Invocation(<<IntV(1), IntV(1)>>, MapV(<<>>))>>
    /\ pc = "returned" /\ run.final.val = IntV(2)

\* the schemas the two validators of the guard were built with
EffectiveInputSchema ==
    IF Truthy(guard.input_schema) THEN guard.input_schema ELSE IDENTITY

EffectiveOutputSchema ==
    IF Truthy(guard.output_schema) THEN guard.output_schema ELSE IDENTITY

\* the packed arguments are invalid against the input schema
InputInvalid ==
    /\ run.packed # NoVal
    /\ ~validate_against_schema(EffectiveInputSchema, run.packed, <<>>).ok

\* the function returned a value that is invalid against the output schema
OutputInvalid ==
    /\ run.ret # NoVal
    /\ ~validate_against_schema(EffectiveOutputSchema, run.ret, <<>>).ok

\* the call ended with the wrapped error of the named boundary
EndedWithFailure(subject) ==
    /\ pc = "raised"
    /\ run.final.exc.kind = "Bad value provided for"
    /\ run.final.exc.args[1] = subject

\* C13: with validation enabled, invalid input means the function is never
\* invoked and the call ends with an input failure; invalid output means
\* the call ends with an output failure; a call returns a value only after
\* the input validation and the output validation have both succeeded.
C13_FailureSemantics ==
    (GuardEnded /\ preds = <<TRUE, TRUE>>) =>
        /\ InputInvalid => run.invocations = <<>> /\ EndedWithFailure(InputSubject)
        /\ OutputInvalid => EndedWithFailure(OutputSubject)
        /\ pc = "returned" =>
              /\ run.packed # NoVal => run.in.ok /\ run.in.calls # <<>>
              /\ run.out.ok /\ run.out.calls # <<>>

\* the function takes the arguments of the call
Accepts == guard.fn.v.kind = "sum" => Len(guard.kwargs.v) = 0

\* C15: when the skip predicate returns false throughout a guarded call, no
\* schema is applied, the function is invoked exactly once with exactly the
\* original positional and keyword arguments, and the caller receives
\* exactly what the function returned.
C15_SkipLeavesCallUntouched ==
    (GuardEnded /\ preds = <<FALSE, FALSE>> /\ Accepts) =>
        /\ run.in.calls = <<>> /\ run.out.calls = <<>>
        /\ run.invocations = <<Invocation(guard.args.v, guard.kwargs)>>
        /\ run.ret # NoVal => pc = "returned" /\ run.final.val = run.ret

\* C20: in a guarded call with at least one argument that reaches both
\* boundaries, input validation and output validation are both performed
\* or both skipped, whatever the predicate answers each time it is asked.
C20_ConsistentSkip ==
    (GuardEnded /\ run.packed # NoVal /\ run.out_called) =>
        (InputValidated <=> OutputValidated)

----------------------------------------------------------------------------
(* web.py: the request handler webservice_fn of a registered route *)

InputWord == <<"i", "n", "p", "u", "t">>

\* pat in text, for texts as sequences of characters
Contains(text, pat) ==
    \E i \in 1..(Len(text) - Len(pat) + 1) : SubSeq(text, i, i + Len(pat) - 1) = pat

RECURSIVE JsonEncodable(_)
JsonEncodable(x) ==
    CASE x.t \in {"none", "int", "str"} -> TRUE
      [] x.t \in {"seq", "tup"} -> \A i \in 1..Len(x.v) : JsonEncodable(x.v[i])
      [] x.t = "map" -> \A i \in 1..Len(x.v) :
                            /\ x.v[i][1].t \in {"none", "int", "str"}
                            /\ JsonEncodable(x.v[i][2])
      [] OTHER -> FALSE

RECURSIVE JsonChars(_)
\* the text json.dumps writes for an encodable value
JsonChars(x) ==
    CASE x.t = "none" -> <<"n", "u", "l", "l">>
      [] x.t = "int" -> IntToChars(x.v)
      [] x.t = "str" -> <<"\"">> \o x.v \o <<"\"">>
      [] x.t \in {"seq", "tup"} ->
            <<"[">> \o JoinChars([i \in 1..Len(x.v) |-> JsonChars(x.v[i])], <<",", " ">>)
                \o <<"]">>
      [] x.t = "map" ->
            <<"{">> \o JoinChars([i \in 1..Len(x.v) |->
                                    (IF x.v[i][1].t = "str" THEN JsonChars(x.v[i][1])
                                     ELSE <<"\"">> \o JsonChars(x.v[i][1]) \o <<"\"">>)
                                    \o <<":", " ">> \o JsonChars(x.v[i][2])],
                                  <<",", " ">>) \o <<"}">>

\* json.dumps(x)
JsonDumps(x) ==
    IF JsonEncodable(x) THEN Returns(StrV(JsonChars(x)), <<>>)
    ELSE Raises(Exc("TypeError", "is not JSON serializable", <<x>>), <<>>)

\* the documents a request body can hold
JsonValues ==
    {NoneV, IntV(1), StrV(<<"a">>), StrV(InputWord), SeqV(<<>>), SeqV(<<IntV(1), IntV(1)>>),
     SeqV(<<StrV(<<"a">>)>>), SeqV(<<StrV(InputWord)>>), MapV(<<<<AKey, IntV(1)>>>>)}

\* a body that is not a JSON document
Malformed == <<"[", "1">>

\* json.loads(text): the document the text encodes
JsonLoads(text) ==
    IF \E v \in JsonValues : JsonChars(v) = text
    THEN Returns(CHOOSE v \in JsonValues : JsonChars(v) = text, <<>>)
    ELSE Raises(Exc("JSONDecodeError", "Expecting ',' delimiter", <<StrV(text)>>), <<>>)

\* _dispatch_to_fn(fn, args): by the first predicate of the map that holds
dispatch_to_fn(f, args) ==
    IF is_string(args) THEN CallFn(f, TupV(<<args>>), MapV(<<>>))
    ELSE IF IsSequence(args) THEN CallFn(f, args, MapV(<<>>))
    ELSE IF IsMutableMapping(args) THEN CallFn(f, TupV(<<>>), args)
    ELSE CallFn(f, TupV(<<args>>), MapV(<<>>))

\* the validators service_route builds for the rule
EndpointInputSubject(rule) == StrV(InputWord \o <<" to endpoint ">> \o rule)

EndpointOutputSubject(rule) ==
    StrV(<<"o", "u", "t", "p", "u", "t", " from endpoint ">> \o rule)

endpoint_input_validator(w, coerce) ==
    validator(IF Truthy(w.input_schema) THEN w.input_schema ELSE IDENTITY,
              EndpointInputSubject(w.rule), TRUE, coerce, NoneV).val

endpoint_output_validator(w, coerce) ==
    validator(IF Truthy(w.output_schema) THEN w.output_schema ELSE IDENTITY,
              EndpointOutputSubject(w.rule), TRUE, coerce, NoneV).val

\* exception.args[0]
FirstArg(e) == ExcChars(e)

Response(status, body) == [status |-> status, body |-> body]

\* _process_error(exception)
_process_error(e) ==
    IF Contains(FirstArg(e), InputWord)
    THEN Response(400, ExcChars(e))
    ELSE Response(500, ExcChars(e))

Rules == {<<"/", "s", "u", "m">>, <<"/">> \o InputWord \o <<"s">>}

Bodies == {JsonChars(v) : v \in JsonValues} \cup {Malformed}

EndpointFns ==
    {DefV("sum", NoneV), DefV("ret", IntV(1)), DefV("ret", StrV(InputWord)),
     DefV("ret", NoneV), DefV("raise", AKey), DefV("raise", StrV(InputWord))}

InitWeb ==
    /\ pc = "received"
    /\ op = "webservice_fn"
    /\ schema = NoneV
    /\ value = NoneV
    /\ result = NoResult
    /\ coerce_data \in BOOLEAN
    /\ preds \in [1..2 -> BOOLEAN]
    /\ guard = NoGuard
    /\ run = NoRun
    /\ \E r \in Rules, i \in {NoneV, int, SeqV(<<int>>)}, o \in {NoneV, int},
          f \in EndpointFns, d \in Bodies :
            web = [NoWeb EXCEPT !.rule = r, !.input_schema = i, !.output_schema = o,
                                !.fn = f, !.data = d]

\* one stage of the reduce of webservice_fn: on success the value goes on
\* to the next stage, on an exception the handler leaves the pipeline
Stage(name, outcome, next, asked, invoked) ==
    /\ \E o \in {outcome} :
          /\ web' = [web EXCEPT !.x = IF o.ok THEN o.val ELSE NoVal,
                                !.failed = IF o.ok THEN "" ELSE name,
                                !.exc = IF o.ok THEN NoExc ELSE o.exc,
                                !.npred = @ + asked,
                                !.invocations = @ \o invoked]
          /\ pc' = IF o.ok THEN next ELSE "failed"
    /\ UNCHANGED <<op, schema, value, result, coerce_data, preds, guard, run>>

\* web.py:69  json.loads
WebLoads ==
    /\ pc = "received"
    /\ Stage("loads", JsonLoads(web.data), "loaded", 0, <<>>)

\* web.py:70  partial(validate_against_schema, input_validator): the
\* validator is a callable schema, applied by the default handler
WebValidateInput ==
    /\ pc = "loaded"
    /\ Stage("validate_input",
             CallValidator(endpoint_input_validator(web, coerce_data),
                           preds[web.npred + 1], web.x),
             "input_ok", Asked(web.x), <<>>)

\* web.py:71  partial(dispatch_to_fn, fn)
WebDispatch ==
    /\ pc = "input_ok"
    /\ \E c \in {dispatch_to_fn(web.fn, web.x)} :
          Stage("dispatch", c.outcome, "dispatched", 0, c.invoked)

\* web.py:72  partial(validate_against_schema, output_validator)
WebValidateOutput ==
    /\ pc = "dispatched"
    /\ Stage("validate_output",
             CallValidator(endpoint_output_validator(web, coerce_data),
                           preds[web.npred + 1], web.x),
             "output_ok", Asked(web.x), <<>>)

\* web.py:73-75  json.dumps and the Response with status 200
WebDumps ==
    /\ pc = "output_ok"
    /\ \E r \in {JsonDumps(web.x)} :
           IF r.ok
           THEN /\ web' = [web EXCEPT !.response = Response(200, r.val.v)]
                /\ pc' = "responded"
           ELSE /\ web' = [web EXCEPT !.failed = "dumps", !.exc = r.exc]
                /\ pc' = "failed"
    /\ UNCHANGED <<op, schema, value, result, coerce_data, preds, guard, run>>

\* web.py:77-78  except Exception as e: return _process_error(e)
WebProcessError ==
    /\ pc = "failed"
    /\ web' = [web EXCEPT !.response = _process_error(web.exc)]
    /\ pc' = "responded"
    /\ UNCHANGED <<op, schema, value, result, coerce_data, preds, guard, run>>

NextWeb ==
    \/ WebLoads
    \/ WebValidateInput
    \/ WebDispatch
    \/ WebValidateOutput
    \/ WebDumps
    \/ WebProcessError

SpecWeb == InitWeb /\ [][NextWeb]_vars

\* C17: the web handler answers 400 exactly when the request failed input
\* validation, 500 for every other failure whatever text the error holds,
\* and 200 with the encoded result when nothing failed.
C17_StatusByFailure ==
    (op = "webservice_fn" /\ pc = "responded") =>
        /\ web.response.status = 400 <=> web.failed = "validate_input"
        /\ web.failed \notin {"", "validate_input"} => web.response.status = 500
        /\ web.failed = "" => /\ web.response.status = 200
                              /\ web.response.body = JsonChars(web.x)

====
